---- MODULE Spec2Model ----
(***************************************************************************)
(* Session / authentication subsystem of the REST API: AuthService         *)
(* (signup, login, logout, verifyEmail, resendVerifyEmail), OTPService     *)
(* (createOTP, findOTP), AuthMiddleware, and the relational store behind   *)
(* them.  Every handler is cut at its awaits on the store, so that         *)
(* concurrent requests interleave exactly where the code suspends.         *)
(* Time is counted in seconds.                                             *)
(***************************************************************************)
EXTENDS Integers, FiniteSets, Sequences, TLC

\* ------------------------------------------------------------------ bounds
MaxUsers == 2
MaxOtps == 3
MaxSessions == 2
MaxFaults == 1
MaxArticles == 1

\* ------------------------------------------------------ program constants
ValidInMinutes == 10
ExpiresIn == 60 * 60 * 60
NullDate == -1

\* ------------------------------------------------------------ input sets
Slots == {1, 2}
Emails == {"a@x.com", "b@x.com"}
SignupPasswords == {"secret"}
LoginEmails == Emails \cup {"nobody@x.com"}
LoginPasswords == {"secret", "wrong"}
UserAgents == {"ua1", "ua2"}
IpAddresses == {"10.0.0.1"}
Keys == {"11111111", "22222222"}
Instants == {0, 216000}
AccountInstants == {0, 601}
ExpiryInstants == {0, 600, 601}

VARIABLES
  users,        \* table users: pk -> row
  users_roles,  \* table users_roles: set of [user_id, role_id]
  otps,         \* table otps: pk -> row
  sessions,     \* table users_sessions: pk -> row
  seq,          \* the store's pk sequences
  outbox,       \* mails delivered by the mail transport
  tokens,       \* access tokens handed out to clients
  now,          \* wall clock, seconds
  req,          \* in-flight requests, one per slot
  loggedOut,    \* history: session uuids whose logout has returned
  faults,       \* number of store / mail failures so far
  articles,     \* table articles: pk -> row
  articles_categories  \* table articles_categories: set of [article_id, category_id, deleted_at]

vars == <<users, users_roles, otps, sessions, seq, outbox, tokens, now, req, loggedOut, faults,
          articles, articles_categories>>

\* ------------------------------------------------------------------ data
NoUuid == [kind |-> "none", n |-> 0]
UUIDV4(kind, pk) == [kind |-> kind, n |-> pk]

Roles == (1 :> [uuid |-> UUIDV4("role", 1), name |-> "ADMIN"]) @@
         (2 :> [uuid |-> UUIDV4("role", 2), name |-> "USER"])

NoToken == [kind |-> "none", uid |-> NoUuid, sid |-> NoUuid, exp |-> 0]
GarbageToken == [kind |-> "garbage", uid |-> NoUuid, sid |-> NoUuid, exp |-> 0]

\* request header Authorization: absent, or "<scheme> <credentials>"
NoHeader == [scheme |-> "", credentials |-> NoToken]
Bearer(token) == [scheme |-> "Bearer", credentials |-> token]
Basic(token) == [scheme |-> "Basic", credentials |-> token]

\* a transaction: its state and the writes it holds back until commit
NoTx == [state |-> "none", users |-> <<>>, users_roles |-> {}, otps |-> <<>>,
         articles |-> <<>>, titles |-> <<>>, destroyed |-> {},
         links |-> {}, unlinked |-> {}, linksDestroyed |-> {}]
OpenTx == [NoTx EXCEPT !.state = "open"]

\* A request: its operation and position, its arguments, the handler's locals, what it
\* answered (status, thrown), and what was true of the store when it arrived (dup,
\* afterLogout, afterUse).
Idle == [op |-> "idle", pc |-> "idle",
         email |-> "", password |-> "", ua |-> "", ip |-> "",
         cookies |-> [Authorization |-> NoToken], header |-> NoHeader,
         token |-> NoToken, key |-> "", required |-> {}, at |-> 0, article |-> 0,
         user |-> 0, sessUser |-> 0, sess |-> 0, sessStatus |-> "", userSession |-> 0, otp |-> 0, otpStatus |-> "",
         valid |-> FALSE, roles |-> {}, session_id |-> NoUuid,
         tx |-> NoTx, error |-> "", thrown |-> "", status |-> 0, cookie |-> <<>>,
         mail |-> "", mw |-> "", dup |-> FALSE, afterLogout |-> FALSE, afterUse |-> FALSE]

\* bcrypt: hash is one-way and compare re-hashes the candidate
hash(password) == <<"bcrypt", password>>
compare(password, hashed) == hash(password) = hashed

\* paranoid models: a row whose deleted_at is set is left out of every query
Deleted(row) == row.deleted_at # NullDate
Pks(table) == {pk \in DOMAIN table : ~Deleted(table[pk])}
Insert(table, pk, row) == table @@ (pk :> row)

\* a slot takes a request when it holds none, or once it has answered the last one
Free(r) == req[r].pc \in {"idle", "done"}

\* rows that requests already past their guard are still going to insert
Reserved(pcs) == Cardinality({s \in Slots : req[s].pc \in pcs})

\* the environment fails a step only while its budget of failures lasts
Fault(failed) == /\ failed => faults < MaxFaults
                 /\ faults' = IF failed THEN faults + 1 ELSE faults

\* the answered request: the handler's locals are gone, the response and what the
\* request was stay
Done(q, status) ==
  [Idle EXCEPT !.op = q.op, !.pc = "done", !.status = status, !.error = q.error,
               !.thrown = q.thrown, !.mw = q.mw, !.mail = q.mail, !.tx = [NoTx EXCEPT !.state = q.tx.state],
               !.token = q.token, !.ua = q.ua, !.user = q.user, !.sess = q.sess,
               !.cookies = q.cookies, !.header = q.header, !.required = q.required,
               !.roles = q.roles, !.session_id = q.session_id,
               !.email = IF q.op = "login" THEN q.email ELSE "",
               !.password = IF q.op = "login" THEN q.password ELSE "",
               !.ip = IF q.op = "login" THEN q.ip ELSE "", !.cookie = q.cookie,
               !.key = IF q.op = "verify" THEN q.key ELSE "", !.otpStatus = q.otpStatus,
               !.at = q.at, !.article = q.article,
               !.otp = IF q.op \in {"resend", "verify"} THEN q.otp ELSE 0,
               !.sessStatus = q.sessStatus, !.userSession = q.userSession,
               !.dup = q.dup, !.afterLogout = q.afterLogout, !.afterUse = q.afterUse]
Throw(q, status, error) == Done([q EXCEPT !.error = error, !.thrown = error], status)

\* ------------------------------------------------------- token issuer
\* the two claims of the token written into each other's place
createAccessTokenSwapped(user, userSession) ==
  [expiresIn |-> ExpiresIn,
   token |-> [kind |-> "jwt", uid |-> userSession.uuid, sid |-> user.uuid, exp |-> now + ExpiresIn]]

\* sign(dataStoredInToken, SECRET_KEY, {expiresIn}): exp = iat + expiresIn
createAccessToken(user, userSession) ==
  [expiresIn |-> ExpiresIn,
   token |-> [kind |-> "jwt", uid |-> user.uuid, sid |-> userSession.uuid, exp |-> now + ExpiresIn]]

\* `Authorization=${token}; HttpOnly; Max-Age=${expiresIn};` as its attributes in order
createCookie(TokenPayload) ==
  <<[name |-> "Authorization", value |-> TokenPayload.token],
    [name |-> "HttpOnly", value |-> TRUE],
    [name |-> "Max-Age", value |-> TokenPayload.expiresIn]>>

\* the signature check alone
verifyUnexpiring(token) == token.kind = "jwt"

\* jsonwebtoken.verify: signature must be the server's, and now < exp
verify(token) == token.kind = "jwt" /\ now < token.exp

\* --------------------------------------------------- session store access
ActiveSessions(session_id) ==
  {s \in Pks(sessions) : sessions[s].uuid = session_id /\ sessions[s].status = "ACTIVE"}

\* the lookup without its status filter
checkSessionActiveAnyStatus(session_id) ==
  IF {s \in Pks(sessions) : sessions[s].uuid = session_id} = {} THEN {0}
  ELSE {s \in Pks(sessions) : sessions[s].uuid = session_id}

\* findOne({uuid, status: "ACTIVE"}): a matching row, or null (0)
checkSessionActive(session_id) ==
  IF ActiveSessions(session_id) = {} THEN {0} ELSE ActiveSessions(session_id)

getUserRoles(user_id) == {ur \in users_roles : ur.user_id = user_id}

\* ------------------------------------------------------- AuthMiddleware
\* the article routes behind AuthMiddleware
ArticleOps == {"createArticle", "updateArticle", "deleteArticle"}

Rejected(q, error) == [Throw(q, 401, error) EXCEPT !.mw = "Rejected"]

\* the header read before the cookie
getAuthorizationHeaderFirst(cookies, header) ==
  IF header # NoHeader
    THEN IF header.scheme = "Bearer" THEN header.credentials ELSE NoToken
  ELSE cookies.Authorization

\* the cookie "Authorization" if the request has one; else what follows "Bearer " in
\* the header "Authorization" (undefined when the header has no "Bearer "); else null
getAuthorization(cookies, header) ==
  IF cookies.Authorization # NoToken THEN cookies.Authorization
  ELSE IF header # NoHeader
    THEN IF header.scheme = "Bearer" THEN header.credentials ELSE NoToken
  ELSE NoToken

\* First half, up to the first await on the store: getAuthorization, verify(),
\* checkSessionActive(sid).
AuthMiddleware(r, op, cookies, header, ua) ==
  /\ Free(r)
  /\ LET token == getAuthorization(cookies, header)
         q == [Idle EXCEPT !.op = op, !.cookies = cookies, !.header = header,
                           !.token = token, !.ua = ua,
                           !.afterLogout = (token.sid \in loggedOut)]
     IN IF token.kind = "none"
          THEN req' = [req EXCEPT ![r] = Rejected(q, "Invalid Token #66")]
        ELSE IF ~verify(token)
          THEN req' = [req EXCEPT ![r] = Rejected(q, "Invalid Token #70")]
        ELSE \E s \in checkSessionActive(token.sid) :
               req' = [req EXCEPT ![r] = [q EXCEPT !.pc = "mw_roles", !.sess = s,
                         !.sessStatus = IF s = 0 THEN "" ELSE sessions[s].status,
                         !.sessUser = IF s # 0 /\ sessions[s].user_id \in Pks(users)
                                    THEN sessions[s].user_id ELSE 0]]
  /\ UNCHANGED faults
  /\ UNCHANGED <<users, users_roles, otps, sessions, seq, outbox, tokens, now, loggedOut>>
  /\ UNCHANGED <<articles, articles_categories>>

\* Second half: getUserRoles, identity check, user-agent check, next().
AuthMiddlewareRoles(r) ==
  /\ req[r].pc = "mw_roles"
  /\ LET q == req[r]
         s == q.sess
     IN IF s = 0 \/ q.sessUser = 0
          THEN req' = [req EXCEPT ![r] = Rejected(q, "Invalid Token #70")]
        ELSE IF users[q.sessUser].uuid # q.token.uid
          THEN req' = [req EXCEPT ![r] = Rejected(q, "Invalid Token #63")]
        ELSE IF q.ua # sessions[s].useragent
          THEN req' = [req EXCEPT ![r] = Rejected(q, "Invalid Token #60")]
        ELSE LET a == [q EXCEPT !.mw = "Authorized",
                                !.session_id = q.token.sid, !.user = q.sessUser,
                                !.roles = {Roles[ur.role_id].name : ur \in getUserRoles(sessions[s].user_id)}]
             IN req' = [req EXCEPT ![r] = IF q.op = "logout" THEN [a EXCEPT !.pc = "lo_user"]
                                          ELSE IF q.op = "users" THEN [a EXCEPT !.pc = "mw_gate"]
                                          ELSE IF q.op \in ArticleOps THEN [a EXCEPT !.pc = "ar_service"]
                                          ELSE Done(a, 200)]
  /\ UNCHANGED <<users, users_roles, otps, sessions, seq, outbox, tokens, now, loggedOut, faults>>
  /\ UNCHANGED <<articles, articles_categories>>

\* ------------------------------------------------------ AuthorizedRoles
\* the gate that lets every request through
AuthorizedRolesOpen(r, roles) ==
  /\ req[r].pc = "mw_gate"
  /\ req' = [req EXCEPT ![r] = Done([req[r] EXCEPT !.required = roles], 200)]
  /\ UNCHANGED <<users, users_roles, otps, sessions, seq, outbox, tokens, now, loggedOut, faults>>
  /\ UNCHANGED <<articles, articles_categories>>

\* roles.some(requiredRole => userRoles.includes(requiredRole)), else 403
AuthorizedRoles(r, roles) ==
  /\ req[r].pc = "mw_gate"
  /\ LET q == [req[r] EXCEPT !.required = roles]
         userRoles == q.roles
         hasRequiredRole == \E requiredRole \in roles : requiredRole \in userRoles
     IN req' = [req EXCEPT ![r] = IF hasRequiredRole THEN Done(q, 200)
                                  ELSE Throw(q, 403, "Unauthorized Access #37")]
  /\ UNCHANGED <<users, users_roles, otps, sessions, seq, outbox, tokens, now, loggedOut, faults>>
  /\ UNCHANGED <<articles, articles_categories>>

\* ---------------------------------------------------------------- login
createUserSession(pk, data) ==
  [uuid |-> UUIDV4("session", pk), user_id |-> data.pk, useragent |-> data.useragent,
   ip_address |-> data.ip_address, status |-> "ACTIVE", deleted_at |-> NullDate]

UsersByEmail(email) == {u \in Pks(users) : users[u].email = email}

\* findOne by email, compare(password), email_verified_at check
\* every account taken as verified
VerifiedAlways(findUser) == TRUE

\* login's test of findUser.email_verified_at
Verified(findUser) == findUser.email_verified_at # NullDate

login(r, email, password, ua, ip) ==
  /\ Free(r)
  /\ seq.sessions + Reserved({"li_session"}) <= MaxSessions
  /\ LET q == [Idle EXCEPT !.op = "login", !.email = email, !.password = password,
                           !.ua = ua, !.ip = ip]
     IN IF UsersByEmail(email) = {}
          THEN req' = [req EXCEPT ![r] = Throw(q, 409, "email was not found")]
        ELSE \E u \in UsersByEmail(email) :
               IF ~compare(password, users[u].password)
                 THEN req' = [req EXCEPT ![r] = Throw(q, 409, "Password not matching")]
               ELSE IF ~Verified(users[u])
                 THEN req' = [req EXCEPT ![r] = Throw(q, 400, "Email is not verified")]
               ELSE req' = [req EXCEPT ![r] = [q EXCEPT !.pc = "li_session", !.user = u]]
  /\ UNCHANGED faults
  /\ UNCHANGED <<users, users_roles, otps, sessions, seq, outbox, tokens, now, loggedOut>>
  /\ UNCHANGED <<articles, articles_categories>>

\* a login that closes the user's other sessions
loginCreateSessionSingle(r) ==
  /\ req[r].pc = "li_session"
  /\ LET q == req[r]
         pk == seq.sessions
         sessionData == createUserSession(pk, [pk |-> q.user, useragent |-> q.ua, ip_address |-> q.ip])
         TokenPayload == createAccessToken(users[q.user], sessionData)
         closed == [s \in Pks(sessions) |->
                      IF sessions[s].user_id = q.user THEN [sessions[s] EXCEPT !.status = "LOGOUT"]
                      ELSE sessions[s]]
     IN /\ sessions' = Insert(closed, pk, sessionData)
        /\ seq' = [seq EXCEPT !.sessions = pk + 1]
        /\ tokens' = tokens \cup {TokenPayload.token}
        /\ req' = [req EXCEPT ![r] = Done([q EXCEPT !.sess = pk, !.token = TokenPayload.token,
                                                      !.cookie = createCookie(TokenPayload)], 200)]
  /\ UNCHANGED <<users, users_roles, otps, outbox, now, loggedOut, faults>>
  /\ UNCHANGED <<articles, articles_categories>>

\* createUserSession, createAccessToken, createCookie
loginCreateSession(r) ==
  /\ req[r].pc = "li_session"
  /\ LET q == req[r]
         pk == seq.sessions
         sessionData == createUserSession(pk, [pk |-> q.user, useragent |-> q.ua, ip_address |-> q.ip])
         TokenPayload == createAccessToken(users[q.user], sessionData)
     IN /\ sessions' = Insert(sessions, pk, sessionData)
        /\ seq' = [seq EXCEPT !.sessions = pk + 1]
        /\ tokens' = tokens \cup {TokenPayload.token}
        /\ req' = [req EXCEPT ![r] = Done([q EXCEPT !.sess = pk, !.token = TokenPayload.token,
                                                      !.cookie = createCookie(TokenPayload)], 200)]
  /\ UNCHANGED <<users, users_roles, otps, outbox, now, loggedOut, faults>>
  /\ UNCHANGED <<articles, articles_categories>>

\* --------------------------------------------------------------- logout
\* a logout that does not look the user up
logoutUnchecked(r) ==
  /\ req[r].pc = "lo_user"
  /\ \E s \in checkSessionActive(req[r].session_id) :
       IF s = 0
         THEN /\ req' = [req EXCEPT ![r] = Done(req[r], 200)]
              /\ loggedOut' = loggedOut \cup {req[r].session_id}
         ELSE /\ req' = [req EXCEPT ![r] = [req[r] EXCEPT !.pc = "lo_save", !.sess = s,
                                                         !.userSession = s]]
              /\ UNCHANGED loggedOut
  /\ UNCHANGED <<users, users_roles, otps, sessions, seq, outbox, tokens, now, faults>>
  /\ UNCHANGED <<articles, articles_categories>>

\* a logout that refuses a session it does not find ACTIVE
logoutStrict(r) ==
  /\ req[r].pc = "lo_user"
  /\ IF req[r].user \notin Pks(users)
       THEN /\ req' = [req EXCEPT ![r] = Throw(req[r], 409, "User doesn't exist")]
            /\ UNCHANGED loggedOut
       ELSE \E s \in checkSessionActive(req[r].session_id) :
              IF s = 0
                THEN /\ req' = [req EXCEPT ![r] = Throw(req[r], 404, "Session not found")]
                     /\ UNCHANGED loggedOut
                ELSE /\ req' = [req EXCEPT ![r] = [req[r] EXCEPT !.pc = "lo_save", !.sess = s,
                                                                !.userSession = s]]
                     /\ UNCHANGED loggedOut
  /\ UNCHANGED <<users, users_roles, otps, sessions, seq, outbox, tokens, now, faults>>
  /\ UNCHANGED <<articles, articles_categories>>

\* logout: findOne user by pk (409 when gone), then logoutSessionActive's
\* findOne({uuid: sid, status: "ACTIVE"}); no row means success without a write
logout(r) ==
  /\ req[r].pc = "lo_user"
  /\ IF req[r].user \notin Pks(users)
       THEN /\ req' = [req EXCEPT ![r] = Throw(req[r], 409, "User doesn't exist")]
            /\ UNCHANGED loggedOut
       ELSE \E s \in checkSessionActive(req[r].session_id) :
              IF s = 0
                THEN /\ req' = [req EXCEPT ![r] = Done(req[r], 200)]
                     /\ loggedOut' = loggedOut \cup {req[r].session_id}
                ELSE /\ req' = [req EXCEPT ![r] = [req[r] EXCEPT !.pc = "lo_save", !.sess = s,
                                                                !.userSession = s]]
                     /\ UNCHANGED loggedOut
  /\ UNCHANGED <<users, users_roles, otps, sessions, seq, outbox, tokens, now, faults>>
  /\ UNCHANGED <<articles, articles_categories>>

\* the status assigned in memory but save() left out
logoutSessionActiveNoSave(r) ==
  /\ req[r].pc = "lo_save"
  /\ req' = [req EXCEPT ![r] = Done(req[r], 200)]
  /\ loggedOut' = loggedOut \cup {req[r].session_id}
  /\ UNCHANGED <<users, users_roles, otps, sessions, seq, outbox, tokens, now, faults>>
  /\ UNCHANGED <<articles, articles_categories>>

\* the session closed with the wrong status
logoutSessionActiveExpired(r) ==
  /\ req[r].pc = "lo_save"
  /\ sessions' = [sessions EXCEPT ![req[r].sess].status = "EXPIRED"]
  /\ req' = [req EXCEPT ![r] = Done(req[r], 200)]
  /\ loggedOut' = loggedOut \cup {req[r].session_id}
  /\ UNCHANGED <<users, users_roles, otps, seq, outbox, tokens, now, faults>>
  /\ UNCHANGED <<articles, articles_categories>>

\* logoutSessionActive: userSession.status = "LOGOUT"; save()
logoutSessionActive(r) ==
  /\ req[r].pc = "lo_save"
  /\ sessions' = [sessions EXCEPT ![req[r].sess].status = "LOGOUT"]
  /\ req' = [req EXCEPT ![r] = Done(req[r], 200)]
  /\ loggedOut' = loggedOut \cup {req[r].session_id}
  /\ UNCHANGED <<users, users_roles, otps, seq, outbox, tokens, now, faults>>
  /\ UNCHANGED <<articles, articles_categories>>

\* ----------------------------------------------------------- OTPService
\* the validity added to the clock without converting minutes
createOTPUnconverted(pk, data, key, validInMinutes) ==
  [uuid |-> UUIDV4("otp", pk), user_id |-> data.user_id, key |-> key, type |-> data.type,
   status |-> "AVAILABLE", expired_at |-> now + validInMinutes, deleted_at |-> NullDate]

\* createOTP(data, validInMinutes, transaction): the row it inserts
createOTP(pk, data, key, validInMinutes) ==
  [uuid |-> UUIDV4("otp", pk), user_id |-> data.user_id, key |-> key, type |-> data.type,
   status |-> "AVAILABLE", expired_at |-> now + validInMinutes * 60, deleted_at |-> NullDate]

\* the lookup without the owner
AvailableOTPsAnyUser(data) ==
  {o \in Pks(otps) : /\ otps[o].key = data.key
                     /\ otps[o].status = "AVAILABLE"}

\* the lookup without its key
AvailableOTPsAnyKey(data) ==
  {o \in Pks(otps) : /\ otps[o].user_id = data.user_id
                     /\ otps[o].status = "AVAILABLE"}

AvailableOTPs(data) ==
  {o \in Pks(otps) : /\ otps[o].user_id = data.user_id
                     /\ otps[o].key = data.key
                     /\ otps[o].status = "AVAILABLE"}

\* the expiry test left out
ExpiredNever(otp) == FALSE

\* the expiry instant counted as expired
ExpiredAtInstant(otp) == otp.expired_at <= now

\* findOTP's expiry test: new Date(otp.expired_at) < new Date()
Expired(otp) == otp.expired_at < now

\* --------------------------------------------------------------- signup
UserRow(pk, userData, hashedPassword) ==
  [uuid |-> UUIDV4("user", pk), email |-> userData.email, password |-> hashedPassword,
   email_verified_at |-> NullDate, deleted_at |-> NullDate]

\* HTTP status the error middleware gives an error: its own status, or 500
StatusOf(error) ==
  CASE error = "This email already exists" -> 409
    [] error \in {"Invalid UUID", "Email already verified", "OTP is not valid",
                  "Some categories are not found or duplicated"} -> 400
    [] OTHER -> 500

\* the existence check left out
existingUserUnchecked(email) == FALSE

\* findOne({email}) as signup issues it, inside its transaction
existingUser(email) == UsersByEmail(email) # {}

\* transaction(); findOne({email}); throw 409 when a row is found
signup(r, email, password) ==
  /\ Free(r)
  /\ seq.users + Reserved({"su_create"}) <= MaxUsers
  /\ seq.otps + Reserved({"su_create"}) <= MaxOtps
  /\ LET q == [Idle EXCEPT !.op = "signup", !.email = email, !.password = password,
                           !.tx = OpenTx, !.dup = (UsersByEmail(email) # {})]
     IN req' = [req EXCEPT ![r] =
                  IF existingUser(email)
                    THEN [q EXCEPT !.pc = "tx_rollback", !.error = "This email already exists"]
                    ELSE [q EXCEPT !.pc = "su_create"]]
  /\ UNCHANGED faults
  /\ UNCHANGED <<users, users_roles, otps, sessions, seq, outbox, tokens, now, loggedOut>>
  /\ UNCHANGED <<articles, articles_categories>>

\* the lookup returning the other seeded role
getRoleIdOther(name) == CHOOSE pk \in DOMAIN Roles : Roles[pk].name # name

\* Roles.findOne({name}).pk
getRoleId(name) == CHOOSE pk \in DOMAIN Roles : Roles[pk].name = name

\* the writes signup makes inside its transaction, up to the step that fails:
\* Users.create, getRoleId + asignUserRole, createOTP
signupCreateUser(r, key, fail) ==
  /\ req[r].pc = "su_create"
  /\ Fault(fail # "none")
  /\ LET q == req[r]
         pk == seq.users
         createUser == UserRow(pk, [email |-> q.email], hash(q.password))
         role == [user_id |-> pk, role_id |-> getRoleId("USER")]
         otp == createOTP(seq.otps, [user_id |-> pk, type |-> "EMAIL_VERIFICATION"], key, ValidInMinutes)
         q1 == [q EXCEPT !.user = pk, !.tx.users = Insert(q.tx.users, pk, createUser)]
         q2 == [q1 EXCEPT !.tx.users_roles = @ \cup {role}]
         q3 == [q2 EXCEPT !.otp = seq.otps, !.key = key, !.tx.otps = Insert(q.tx.otps, seq.otps, otp)]
     IN CASE fail = "getRoleId failed" ->
               /\ req' = [req EXCEPT ![r] = [q1 EXCEPT !.pc = "tx_rollback", !.error = fail]]
               /\ seq' = [seq EXCEPT !.users = pk + 1]
          [] fail = "asignUserRole failed" ->
               /\ req' = [req EXCEPT ![r] = [q1 EXCEPT !.pc = "tx_rollback", !.error = fail]]
               /\ seq' = [seq EXCEPT !.users = pk + 1]
          [] fail = "createOTP failed" ->
               /\ req' = [req EXCEPT ![r] = [q2 EXCEPT !.pc = "tx_rollback", !.error = fail]]
               /\ seq' = [seq EXCEPT !.users = pk + 1]
          [] fail = "none" ->
               /\ req' = [req EXCEPT ![r] = [q3 EXCEPT !.pc = "tx_mail"]]
               /\ seq' = [seq EXCEPT !.users = pk + 1, !.otps = @ + 1]
  /\ UNCHANGED <<users, users_roles, otps, sessions, outbox, tokens, now, loggedOut>>
  /\ UNCHANGED <<articles, articles_categories>>

\* sendEmailOTP: render the template (may throw), then transporter.sendMail with a
\* callback: a delivery error is only logged there and sendEmail resolves normally
sendEmailOTP(r, outcome) ==
  /\ req[r].pc = "tx_mail"
  /\ Fault(outcome # "sent")
  /\ LET q == req[r]
     IN CASE outcome = "render_error" ->
               /\ req' = [req EXCEPT ![r] = [q EXCEPT !.pc = "tx_rollback", !.error = "sendEmailOTP failed"]]
               /\ UNCHANGED outbox
          [] outcome = "smtp_error" ->
               /\ req' = [req EXCEPT ![r] = [q EXCEPT !.pc = "tx_commit", !.mail = "smtp_error"]]
               /\ UNCHANGED outbox
          [] outcome = "sent" ->
               /\ req' = [req EXCEPT ![r] = [q EXCEPT !.pc = "tx_commit", !.mail = "sent"]]
               /\ outbox' = outbox \cup {[email |-> q.email, otp |-> q.key]}
  /\ UNCHANGED <<users, users_roles, otps, sessions, seq, tokens, now, loggedOut>>
  /\ UNCHANGED <<articles, articles_categories>>

\* the article tables once a transaction's writes are applied: rows created, fields
\* updated, rows destroyed (paranoid: deleted_at is set; force: the row is removed)
ApplyArticles(tx) ==
  LET inserted == articles @@ tx.articles
  IN [a \in DOMAIN inserted |->
        [inserted[a] EXCEPT !.title = IF a \in DOMAIN tx.titles THEN tx.titles[a] ELSE @,
                            !.deleted_at = IF a \in tx.destroyed /\ @ = NullDate THEN now ELSE @]]

ApplyLinks(tx) ==
  {[l EXCEPT !.deleted_at = IF l.article_id \in tx.linksDestroyed /\ @ = NullDate THEN now ELSE @] :
     l \in {k \in articles_categories : k.article_id \notin tx.unlinked}} \cup tx.links

\* transaction.commit(): the buffered rows become visible; a commit that fails leaves
\* the transaction finished all the same
commit(r, ok) ==
  /\ req[r].pc = "tx_commit"
  /\ Fault(~ok)
  /\ LET q == req[r]
     IN IF ok
          THEN /\ users' = users @@ q.tx.users
               /\ users_roles' = users_roles \cup q.tx.users_roles
               /\ otps' = otps @@ q.tx.otps
               /\ articles' = ApplyArticles(q.tx)
               /\ articles_categories' = ApplyLinks(q.tx)
               /\ req' = [req EXCEPT ![r] = [Done(q, IF q.op \in {"signup", "createArticle"} THEN 201 ELSE 200)
                                               EXCEPT !.tx.state = "commit"]]
          ELSE /\ req' = [req EXCEPT ![r] = [q EXCEPT !.pc = "tx_rollback", !.error = "commit failed",
                                                      !.tx.state = "commit"]]
               /\ UNCHANGED <<users, users_roles, otps, articles, articles_categories>>
  /\ UNCHANGED <<sessions, seq, outbox, tokens, now, loggedOut>>

\* catch (error) { await transaction.rollback(); throw error; }
\* rollback() of a finished transaction rejects, and that rejection is what propagates
rollback(r) ==
  /\ req[r].pc = "tx_rollback"
  /\ LET q == req[r]
     IN req' = [req EXCEPT ![r] =
          IF q.tx.state = "open"
            THEN Done([q EXCEPT !.tx.state = "rollback", !.thrown = q.error], StatusOf(q.error))
            ELSE Done([q EXCEPT !.thrown = "Transaction cannot be rolled back"], 500)]
  /\ UNCHANGED <<users, users_roles, otps, sessions, seq, outbox, tokens, now, loggedOut, faults>>
  /\ UNCHANGED <<articles, articles_categories>>

\* -------------------------------------------------------- ArticleService
\* the categories table is reference data for these operations
Categories == {1, 2}
ArticlesByUuid(uuid) == {a \in Pks(articles) : articles[a].uuid = uuid}
ArticleLink(article_id, category_id) ==
  [article_id |-> article_id, category_id |-> category_id, deleted_at |-> NullDate]

\* createArticle up to the article's insertion: Files.findOne (404), Categories.findAll
\* (404 when none is found), transaction(), Articles.create(..., {transaction})
createArticle(r, thumbnail, categories, title, ok) ==
  /\ req[r].pc = "ar_service" /\ req[r].op = "createArticle"
  /\ seq.articles <= MaxArticles
  /\ LET q == req[r]
         found == categories \cap Categories
         pk == seq.articles
         article == [uuid |-> UUIDV4("article", pk), title |-> title, author_id |-> q.user,
                     deleted_at |-> NullDate]
     IN IF ~thumbnail
          THEN /\ ok
               /\ req' = [req EXCEPT ![r] = Throw(q, 404, "File is not found")]
               /\ UNCHANGED <<seq, faults>>
        ELSE IF found = {}
          THEN /\ ok
               /\ req' = [req EXCEPT ![r] = Throw(q, 404, "Categories is not found")]
               /\ UNCHANGED <<seq, faults>>
        ELSE /\ Fault(~ok)
             /\ IF ok
                  THEN /\ req' = [req EXCEPT ![r] = [q EXCEPT !.pc = "ca_links", !.article = pk,
                                    !.tx = [OpenTx EXCEPT !.articles = pk :> article,
                                                          !.links = {ArticleLink(pk, c) : c \in found}]]]
                       /\ seq' = [seq EXCEPT !.articles = pk + 1]
                  ELSE /\ req' = [req EXCEPT ![r] = [q EXCEPT !.pc = "tx_rollback", !.tx = OpenTx,
                                                              !.error = "Articles.create failed"]]
                       /\ UNCHANGED seq
  /\ UNCHANGED <<users, users_roles, otps, sessions, outbox, tokens, now, loggedOut>>
  /\ UNCHANGED <<articles, articles_categories>>

\* ArticlesCategories.bulkCreate(rows): { transaction } is handed to Array.map, so the
\* statement runs outside the transaction. The store either writes the rows at once, or
\* refuses them (it does where it enforces the reference to the article, whose row is
\* not committed yet).
createArticleLinks(r, outcome) ==
  /\ req[r].pc = "ca_links"
  /\ LET q == req[r]
     IN IF outcome = "stored"
          THEN /\ articles_categories' = articles_categories \cup q.tx.links
               /\ req' = [req EXCEPT ![r] = [q EXCEPT !.pc = "tx_commit", !.tx.links = {}]]
          ELSE /\ req' = [req EXCEPT ![r] = [q EXCEPT !.pc = "tx_rollback", !.error = "bulkCreate failed"]]
               /\ UNCHANGED articles_categories
  /\ UNCHANGED <<users, users_roles, otps, sessions, seq, outbox, tokens, now, loggedOut, faults>>
  /\ UNCHANGED articles

\* updateArticle's lookup: findOne({ where: { uuid: article_id } })
updateArticleTarget(article_id, author_id) == ArticlesByUuid(article_id)

\* updateArticle up to its commit: the lookup (400), the fields to update (400 when
\* none), transaction(), the categories replaced (400 when one is unknown), update
updateArticle(r, article_id, title, categories, ok) ==
  /\ req[r].pc = "ar_service" /\ req[r].op = "updateArticle"
  /\ LET q == req[r]
         found == categories.ids \cap Categories
     IN IF updateArticleTarget(article_id, q.user) = {}
          THEN /\ ok
               /\ req' = [req EXCEPT ![r] = Throw(q, 400, "Article is not found")]
               /\ UNCHANGED faults
        ELSE \E a \in updateArticleTarget(article_id, q.user) :
               LET qa == [q EXCEPT !.article = a]
               IN IF title = ""
                    THEN /\ ok
                         /\ req' = [req EXCEPT ![r] = Throw(qa, 400, "Some field is required")]
                         /\ UNCHANGED faults
                  ELSE IF categories.given /\ found # categories.ids
                    THEN /\ ok
                         /\ req' = [req EXCEPT ![r] = [qa EXCEPT !.pc = "tx_rollback", !.tx = OpenTx,
                                           !.error = "Some categories are not found or duplicated"]]
                         /\ UNCHANGED faults
                  ELSE /\ Fault(~ok)
                       /\ req' = [req EXCEPT ![r] =
                             IF ok
                               THEN [qa EXCEPT !.pc = "tx_commit",
                                       !.tx = [OpenTx EXCEPT
                                                 !.unlinked = IF categories.given THEN {a} ELSE {},
                                                 !.links = IF categories.given
                                                             THEN {ArticleLink(a, c) : c \in found} ELSE {},
                                                 !.titles = a :> title]]
                               ELSE [qa EXCEPT !.pc = "tx_rollback", !.tx = OpenTx,
                                               !.error = "Articles.update failed"]]
  /\ UNCHANGED <<users, users_roles, otps, sessions, seq, outbox, tokens, now, loggedOut>>
  /\ UNCHANGED <<articles, articles_categories>>

\* deleteArticle up to its commit: findOne({ where: { uuid, author_id } }) (400),
\* transaction(), article.destroy, ArticlesCategories.destroy
deleteArticle(r, article_id, ok) ==
  /\ req[r].pc = "ar_service" /\ req[r].op = "deleteArticle"
  /\ LET q == req[r]
         target == {a \in ArticlesByUuid(article_id) : articles[a].author_id = q.user}
     IN IF target = {}
          THEN /\ ok
               /\ req' = [req EXCEPT ![r] = Throw(q, 400, "Article is not found")]
               /\ UNCHANGED faults
        ELSE \E a \in target :
               /\ Fault(~ok)
               /\ req' = [req EXCEPT ![r] =
                     IF ok
                       THEN [q EXCEPT !.pc = "tx_commit", !.article = a,
                               !.tx = [OpenTx EXCEPT !.destroyed = {a}, !.linksDestroyed = {a}]]
                       ELSE [q EXCEPT !.pc = "tx_rollback", !.article = a, !.tx = OpenTx,
                                      !.error = "destroy failed"]]
  /\ UNCHANGED <<users, users_roles, otps, sessions, seq, outbox, tokens, now, loggedOut>>
  /\ UNCHANGED <<articles, articles_categories>>

\* ---------------------------------------------------------- verifyEmail
UsersByUuid(uuid) == {u \in Pks(users) : users[u].uuid = uuid}

\* codes of this user that a verifyEmail which has returned has consumed
UsedKeys(u) ==
  {otps[o].key : o \in {p \in Pks(otps) : /\ otps[p].user_id = u /\ otps[p].status = "USED"
                                          /\ \A s \in Slots : ~(req[s].pc = "ve_user" /\ req[s].otp = p)}}

\* findOne({uuid}) (400 when absent), then findOTP's findOne({user_id, key,
\* status: "AVAILABLE"}) (400 when absent) and its expiry test
verifyEmail(r, user_uuid, otp) ==
  /\ Free(r)
  /\ LET q == [Idle EXCEPT !.op = "verify", !.key = otp, !.at = now,
                           !.afterUse = \E u \in UsersByUuid(user_uuid) : otp \in UsedKeys(u)]
     IN IF UsersByUuid(user_uuid) = {}
          THEN req' = [req EXCEPT ![r] = Throw(q, 400, "Invalid UUID")]
          ELSE \E u \in UsersByUuid(user_uuid) :
                 LET found == AvailableOTPs([user_id |-> u, key |-> otp])
                     qu == [q EXCEPT !.user = u]
                 IN IF found = {}
                      THEN req' = [req EXCEPT ![r] = Throw(qu, 400, "OTP is not valid")]
                      ELSE \E o \in found :
                             req' = [req EXCEPT ![r] = [qu EXCEPT !.pc = "ve_save", !.otp = o,
                                       !.otpStatus = IF Expired(otps[o]) THEN "EXPIRED" ELSE "USED"]]
  /\ UNCHANGED faults
  /\ UNCHANGED <<users, users_roles, otps, sessions, seq, outbox, tokens, now, loggedOut>>
  /\ UNCHANGED <<articles, articles_categories>>

\* findOTP: otp.status = ...; otp.save(); throw 400 for an expired one
findOTP(r) ==
  /\ req[r].pc = "ve_save"
  /\ LET q == req[r]
     IN /\ otps' = [otps EXCEPT ![q.otp].status = q.otpStatus]
        /\ req' = [req EXCEPT ![r] = IF q.otpStatus = "EXPIRED"
                                        THEN Throw(q, 400, "OTP is not valid")
                                        ELSE [q EXCEPT !.pc = "ve_user", !.valid = TRUE]]
  /\ UNCHANGED <<users, users_roles, sessions, seq, outbox, tokens, now, loggedOut, faults>>
  /\ UNCHANGED <<articles, articles_categories>>

\* if (valid) { user.email_verified_at = new Date(); user.save(); }
verifyEmailSave(r) ==
  /\ req[r].pc = "ve_user"
  /\ users' = [users EXCEPT ![req[r].user].email_verified_at = IF req[r].valid THEN now ELSE @]
  /\ req' = [req EXCEPT ![r] = Done(req[r], 200)]
  /\ UNCHANGED <<users_roles, otps, sessions, seq, outbox, tokens, now, loggedOut, faults>>
  /\ UNCHANGED <<articles, articles_categories>>

\* ---------------------------------------------------- resendVerifyEmail
\* transaction(); findOne({uuid}); the two early throws, which come before the try
\* block; then createOTP inside the transaction
resendVerifyEmail(r, user_uuid, key, ok) ==
  /\ Free(r)
  /\ seq.otps + Reserved({"su_create"}) <= MaxOtps
  /\ Fault(~ok)
  /\ LET q == [Idle EXCEPT !.op = "resend", !.tx = OpenTx]
     IN IF UsersByUuid(user_uuid) = {}
          THEN /\ ok
               /\ req' = [req EXCEPT ![r] = Throw(q, 400, "Invalid UUID")]
               /\ UNCHANGED seq
          ELSE \E u \in UsersByUuid(user_uuid) :
                 LET pk == seq.otps
                     otp == createOTP(pk, [user_id |-> u, type |-> "EMAIL_VERIFICATION"], key, ValidInMinutes)
                     qu == [q EXCEPT !.user = u, !.email = users[u].email]
                 IN IF users[u].email_verified_at # NullDate
                      THEN /\ ok
                           /\ req' = [req EXCEPT ![r] = Throw(qu, 400, "Email already verified")]
                           /\ UNCHANGED seq
                    ELSE IF ~ok
                      THEN /\ req' = [req EXCEPT ![r] = [qu EXCEPT !.pc = "tx_rollback", !.error = "createOTP failed"]]
                           /\ UNCHANGED seq
                    ELSE /\ req' = [req EXCEPT ![r] = [qu EXCEPT !.pc = "tx_mail", !.otp = pk, !.key = key,
                                                                !.tx.otps = Insert(q.tx.otps, pk, otp)]]
                         /\ seq' = [seq EXCEPT !.otps = pk + 1]
  /\ UNCHANGED <<users, users_roles, otps, sessions, outbox, tokens, now, loggedOut>>
  /\ UNCHANGED <<articles, articles_categories>>

\* ------------------------------------------------------------ environment
Tick(instants) ==
  /\ \E t \in instants : t > now /\ now' = t
  /\ UNCHANGED <<users, users_roles, otps, sessions, seq, outbox, tokens, req, loggedOut, faults>>
  /\ UNCHANGED <<articles, articles_categories>>

\* ---------------------------------------------------------- specification
Init ==
  /\ users = <<>>
  /\ users_roles = {}
  /\ otps = <<>>
  /\ sessions = <<>>
  /\ seq = [users |-> 1, otps |-> 1, sessions |-> 1, articles |-> 1]
  /\ outbox = {}
  /\ tokens = {}
  /\ now = 0
  /\ req = [r \in Slots |-> Idle]
  /\ loggedOut = {}
  /\ faults = 0
  /\ articles = <<>>
  /\ articles_categories = {}

UserUuids == {users[u].uuid : u \in Pks(users)} \cup {UUIDV4("user", 0)}

\* registration
NextAccount ==
  \/ \E r \in Slots, email \in Emails, password \in SignupPasswords : signup(r, email, password)
  \/ \E r \in Slots, key \in Keys,
        fail \in {"none", "getRoleId failed", "asignUserRole failed", "createOTP failed"} :
        signupCreateUser(r, key, fail)
  \/ \E r \in Slots, outcome \in {"sent", "smtp_error", "render_error"} : sendEmailOTP(r, outcome)
  \/ \E r \in Slots, ok \in BOOLEAN : commit(r, ok)
  \/ \E r \in Slots : rollback(r)

SpecAccount == Init /\ [][NextAccount]_vars

\* UserService.deleteUser: findByPk, destroy (paranoid: the row leaves every query)
deleteUser(userId) ==
  /\ userId \in Pks(users)
  /\ users' = [users EXCEPT ![userId].deleted_at = now]
  /\ UNCHANGED <<users_roles, otps, sessions, seq, outbox, tokens, now, req, loggedOut, faults>>
  /\ UNCHANGED <<articles, articles_categories>>

\* sessions, for accounts that exist already: one verified user and one who has not
\* verified yet, as two signups and one verifyEmail leave them
InitSession ==
  /\ users = (1 :> [UserRow(1, [email |-> "a@x.com"], hash("secret")) EXCEPT !.email_verified_at = 0]) @@
             (2 :> UserRow(2, [email |-> "b@x.com"], hash("secret")))
  /\ users_roles = {[user_id |-> 1, role_id |-> getRoleId("USER")],
                    [user_id |-> 2, role_id |-> getRoleId("USER")]}
  /\ otps = (1 :> [uuid |-> UUIDV4("otp", 1), user_id |-> 1, key |-> "11111111",
                   type |-> "EMAIL_VERIFICATION", status |-> "USED", expired_at |-> 600,
                   deleted_at |-> NullDate]) @@
            (2 :> [uuid |-> UUIDV4("otp", 2), user_id |-> 2, key |-> "22222222",
                   type |-> "EMAIL_VERIFICATION", status |-> "AVAILABLE", expired_at |-> 600,
                   deleted_at |-> NullDate])
  /\ sessions = <<>>
  /\ seq = [users |-> 3, otps |-> 3, sessions |-> 1, articles |-> 1]
  /\ outbox = {[email |-> "a@x.com", otp |-> "11111111"], [email |-> "b@x.com", otp |-> "22222222"]}
  /\ tokens = {}
  /\ now = 0
  /\ req = [r \in Slots |-> Idle]
  /\ loggedOut = {}
  /\ faults = 0
  /\ articles = <<>>
  /\ articles_categories = {}

NextSession ==
  \/ \E r \in Slots, op \in {"protected", "logout"}, token \in tokens \cup {NoToken, GarbageToken},
        ua \in UserAgents : AuthMiddleware(r, op, [Authorization |-> token], NoHeader, ua)
  \/ \E r \in Slots : AuthMiddlewareRoles(r)
  \/ \E r \in Slots, email \in Emails, password \in SignupPasswords, ua \in UserAgents,
        ip \in IpAddresses : login(r, email, password, ua, ip)
  \/ \E r \in Slots : loginCreateSession(r)
  \/ \E r \in Slots : logout(r)
  \/ \E r \in Slots : logoutSessionActive(r)
  \/ Tick(Instants)

SpecSession == InitSession /\ [][NextSession]_vars

\* login with any credentials
NextLogin ==
  \/ \E r \in Slots, email \in LoginEmails, password \in LoginPasswords, ua \in UserAgents,
        ip \in IpAddresses : login(r, email, password, ua, ip)
  \/ \E r \in Slots : loginCreateSession(r)

SpecLogin == InitSession /\ [][NextLogin]_vars

\* email verification, for the accounts of InitSession
NextVerify ==
  \/ \E r \in Slots, user_uuid \in UserUuids, otp \in Keys : verifyEmail(r, user_uuid, otp)
  \/ \E r \in Slots : findOTP(r)
  \/ \E r \in Slots : verifyEmailSave(r)
  \/ \E r \in Slots, user_uuid \in UserUuids, key \in Keys, ok \in BOOLEAN :
        resendVerifyEmail(r, user_uuid, key, ok)
  \/ \E r \in Slots, outcome \in {"sent", "smtp_error", "render_error"} : sendEmailOTP(r, outcome)
  \/ \E r \in Slots, ok \in BOOLEAN : commit(r, ok)
  \/ \E r \in Slots : rollback(r)
  \/ Tick(AccountInstants)

SpecVerify == InitSession /\ [][NextVerify]_vars

\* email verification for two accounts that have just signed up, each with its own code
InitSignedUp ==
  /\ users = (1 :> UserRow(1, [email |-> "a@x.com"], hash("secret"))) @@
             (2 :> UserRow(2, [email |-> "b@x.com"], hash("secret")))
  /\ users_roles = {[user_id |-> 1, role_id |-> getRoleId("USER")],
                    [user_id |-> 2, role_id |-> getRoleId("USER")]}
  /\ now = 0
  /\ otps = (1 :> createOTP(1, [user_id |-> 1, type |-> "EMAIL_VERIFICATION"], "11111111", ValidInMinutes)) @@
            (2 :> createOTP(2, [user_id |-> 2, type |-> "EMAIL_VERIFICATION"], "22222222", ValidInMinutes))
  /\ sessions = <<>>
  /\ seq = [users |-> 3, otps |-> 3, sessions |-> 1, articles |-> 1]
  /\ outbox = {[email |-> "a@x.com", otp |-> "11111111"], [email |-> "b@x.com", otp |-> "22222222"]}
  /\ tokens = {}
  /\ req = [r \in Slots |-> Idle]
  /\ loggedOut = {}
  /\ faults = 0
  /\ articles = <<>>
  /\ articles_categories = {}

NextOwner ==
  \/ \E r \in Slots, user_uuid \in UserUuids, otp \in Keys : verifyEmail(r, user_uuid, otp)
  \/ \E r \in Slots : findOTP(r)
  \/ \E r \in Slots : verifyEmailSave(r)
  \/ Tick(AccountInstants)

SpecOwner == InitSignedUp /\ [][NextOwner]_vars

\* email verification around the expiry instant of an OTP
NextExpiry ==
  \/ \E r \in Slots, user_uuid \in UserUuids, otp \in Keys : verifyEmail(r, user_uuid, otp)
  \/ \E r \in Slots : findOTP(r)
  \/ \E r \in Slots : verifyEmailSave(r)
  \/ \E r \in Slots, user_uuid \in UserUuids, key \in Keys : resendVerifyEmail(r, user_uuid, key, TRUE)
  \/ \E r \in Slots : sendEmailOTP(r, "sent")
  \/ \E r \in Slots : commit(r, TRUE)
  \/ Tick(ExpiryInstants)

SpecExpiry == InitSession /\ [][NextExpiry]_vars

\* articles, for two verified users who are logged in
InitArticles ==
  /\ users = (1 :> [UserRow(1, [email |-> "a@x.com"], hash("secret")) EXCEPT !.email_verified_at = 0]) @@
             (2 :> [UserRow(2, [email |-> "b@x.com"], hash("secret")) EXCEPT !.email_verified_at = 0])
  /\ users_roles = {[user_id |-> 1, role_id |-> getRoleId("USER")],
                    [user_id |-> 2, role_id |-> getRoleId("USER")]}
  /\ otps = <<>>
  /\ sessions = (1 :> createUserSession(1, [pk |-> 1, useragent |-> "ua1", ip_address |-> "10.0.0.1"])) @@
                (2 :> createUserSession(2, [pk |-> 2, useragent |-> "ua1", ip_address |-> "10.0.0.1"]))
  /\ seq = [users |-> 3, otps |-> 1, sessions |-> 3, articles |-> 1]
  /\ outbox = {}
  /\ now = 0
  /\ tokens = {createAccessToken(users[u], sessions[u]).token : u \in {1, 2}}
  /\ req = [r \in Slots |-> Idle]
  /\ loggedOut = {}
  /\ faults = 0
  /\ articles = <<>>
  /\ articles_categories = {}

ArticleUuids == {UUIDV4("article", pk) : pk \in 1..MaxArticles}
CreateCategories == {{1}, {9}}
UpdateCategories == {[given |-> FALSE, ids |-> {}], [given |-> TRUE, ids |-> {2}],
                     [given |-> TRUE, ids |-> {9}]}

NextArticles ==
  \/ \E r \in Slots, op \in ArticleOps, token \in tokens :
        AuthMiddleware(r, op, [Authorization |-> token], NoHeader, "ua1")
  \/ \E r \in Slots : AuthMiddlewareRoles(r)
  \/ \E r \in Slots, thumbnail \in BOOLEAN, categories \in CreateCategories, ok \in BOOLEAN :
        createArticle(r, thumbnail, categories, "t1", ok)
  \/ \E r \in Slots, outcome \in {"stored", "refused"} : createArticleLinks(r, outcome)
  \/ \E r \in Slots, article_id \in ArticleUuids, title \in {"", "t2"},
        categories \in UpdateCategories, ok \in BOOLEAN :
        updateArticle(r, article_id, title, categories, ok)
  \/ \E r \in Slots, article_id \in ArticleUuids, ok \in BOOLEAN : deleteArticle(r, article_id, ok)
  \/ \E r \in Slots, ok \in BOOLEAN : commit(r, ok)
  \/ \E r \in Slots : rollback(r)

SpecArticles == InitArticles /\ [][NextArticles]_vars

\* sessions while users are being deleted
NextStaleUser ==
  \/ \E r \in Slots, token \in tokens, ua \in UserAgents : AuthMiddleware(r, "logout", [Authorization |-> token], NoHeader, ua)
  \/ \E r \in Slots : AuthMiddlewareRoles(r)
  \/ \E r \in Slots, email \in Emails, password \in SignupPasswords, ua \in UserAgents,
        ip \in IpAddresses : login(r, email, password, ua, ip)
  \/ \E r \in Slots : loginCreateSession(r)
  \/ \E r \in Slots : logout(r)
  \/ \E r \in Slots : logoutSessionActive(r)
  \/ \E userId \in Pks(users) : deleteUser(userId)

SpecStaleUser == InitSession /\ [][NextStaleUser]_vars

\* GET /v1/users: AuthMiddleware, then the role gate; the token comes in the cookie,
\* in the header, or in both
Headers == {NoHeader} \cup {Bearer(t) : t \in tokens} \cup {Basic(t) : t \in tokens}
RequiredRoles == {{"ADMIN"}, {"ADMIN", "USER"}}

NextGate ==
  \/ \E r \in Slots, cookie \in tokens \cup {NoToken, GarbageToken}, header \in Headers :
        AuthMiddleware(r, "users", [Authorization |-> cookie], header, "ua1")
  \/ \E r \in Slots : AuthMiddlewareRoles(r)
  \/ \E r \in Slots, roles \in RequiredRoles : AuthorizedRoles(r, roles)
  \/ \E r \in Slots, email \in Emails, password \in SignupPasswords, ip \in IpAddresses :
        login(r, email, password, "ua1", ip)
  \/ \E r \in Slots : loginCreateSession(r)

SpecGate == InitSession /\ [][NextGate]_vars

\* ------------------------------------------------------------------ claims

UaDiffers(q) ==
  \E s \in Pks(sessions) : sessions[s].uuid = q.token.sid /\ sessions[s].useragent # q.ua

\* C1: whenever AuthMiddleware lets a request through, the session row it read for the
\* token's sid was ACTIVE, the token's uid is the uuid of that session's owner and the
\* request's user-agent is the one stored on the session; a request whose user-agent
\* differs from the stored one ends Rejected with 401.
C1_AuthorizedSession ==
  \A r \in Slots :
    /\ req[r].mw = "Authorized" =>
         /\ req[r].sess \in Pks(sessions)
         /\ sessions[req[r].sess].uuid = req[r].token.sid
         /\ req[r].sessStatus = "ACTIVE"
         /\ users[sessions[req[r].sess].user_id].uuid = req[r].token.uid
         /\ sessions[req[r].sess].useragent = req[r].ua
    /\ (req[r].op \in {"protected", "logout"} /\ req[r].pc = "done" /\ UaDiffers(req[r])) =>
         (req[r].mw = "Rejected" /\ req[r].status = 401)

C1_Witness ==
  \E r1, r2 \in Slots :
    /\ req[r1].mw = "Authorized" /\ req[r1].pc = "done"
    /\ req[r2].thrown = "Invalid Token #60" /\ req[r2].token \in tokens

\* C2: a request that arrives after logout has returned for the session its token
\* names is never Authorized: it ends Rejected with 401.
C2_RejectedAfterLogout ==
  \A r \in Slots :
    req[r].afterLogout => (req[r].mw # "Authorized" /\ (req[r].pc = "done" => req[r].status = 401))

C2_Witness ==
  \E r \in Slots :
    /\ req[r].afterLogout /\ req[r].pc = "done" /\ req[r].status = 401
    /\ req[r].token \in tokens /\ now < req[r].token.exp
    /\ \E s \in Pks(sessions) : sessions[s].uuid = req[r].token.sid /\ sessions[s].useragent = req[r].ua

\* C5: a session row is inserted ACTIVE, no row is removed, and the only change of a
\* row's status is ACTIVE -> LOGOUT; no status is ever EXPIRED.
C5_SessionStatusOneWay ==
  [][/\ Pks(sessions) \subseteq Pks(sessions')
     /\ \A s \in Pks(sessions') \ Pks(sessions) : sessions'[s].status = "ACTIVE"
     /\ \A s \in Pks(sessions) :
          sessions'[s].status # sessions[s].status =>
            (sessions[s].status = "ACTIVE" /\ sessions'[s].status = "LOGOUT")
     /\ \A s \in Pks(sessions') : sessions'[s].status # "EXPIRED"]_vars

C5_Witness ==
  \E s1, s2 \in Pks(sessions) : sessions[s1].status = "LOGOUT" /\ sessions[s2].status = "ACTIVE"

\* C3: the first verifyEmail with the code of an AVAILABLE, unexpired OTP marks it USED
\* and sets email_verified_at, and every verifyEmail that arrives after a code of the
\* user has been used fails with 400.
C3_OncePerCode ==
  \A r \in Slots :
    req[r].op = "verify" =>
      /\ req[r].pc = "ve_user" => otps[req[r].otp].status # "AVAILABLE"
      /\ (req[r].pc = "done" /\ req[r].status = 200) => users[req[r].user].email_verified_at # NullDate
      /\ req[r].afterUse => (req[r].pc = "done" /\ req[r].status = 400)

\* C4: an OTP's status changes only AVAILABLE -> USED or AVAILABLE -> EXPIRED.
C4_OtpStatusOneWay ==
  [][\A o \in Pks(otps) :
       otps'[o].status # otps[o].status =>
         (otps[o].status = "AVAILABLE" /\ otps'[o].status \in {"USED", "EXPIRED"})]_vars

\* C6: once email_verified_at is set, no step writes it again.
C6_VerifiedAtSetOnce ==
  [][\A u \in Pks(users) :
       users[u].email_verified_at # NullDate =>
         users'[u].email_verified_at = users[u].email_verified_at]_vars

\* C7: a signup whose email was not registered and that met no failure answers 201, and
\* its commit adds exactly one user (that email, email_verified_at null), exactly one
\* role assignment of that user, to USER, and exactly one OTP of that user, AVAILABLE
\* and of type EMAIL_VERIFICATION.
C7_SignupCreatesOneOfEach ==
  [][\A r \in Slots :
       /\ (req[r].op = "signup" /\ req[r].pc = "tx_commit" /\ req'[r].pc = "done"
             /\ req'[r].status = 201) =>
            LET u == req[r].user
                newOtps == Pks(otps') \ Pks(otps)
            IN /\ Pks(users') \ Pks(users) = {u}
               /\ users'[u].email = req[r].email
               /\ users'[u].email_verified_at = NullDate
               /\ Cardinality(users_roles' \ users_roles) = 1
               /\ {ur \in users_roles' : ur.user_id = u} = users_roles' \ users_roles
               /\ \A ur \in users_roles' \ users_roles : Roles[ur.role_id].name = "USER"
               /\ Cardinality(newOtps) = 1
               /\ {o \in Pks(otps') : otps'[o].user_id = u} = newOtps
               /\ \A o \in newOtps : /\ otps'[o].status = "AVAILABLE"
                                     /\ otps'[o].type = "EMAIL_VERIFICATION"
       /\ (req'[r].op = "signup" /\ req'[r].pc = "done" /\ req[r].pc # "done"
             /\ ~req'[r].dup /\ req'[r].error = "") => req'[r].status = 201]_vars

C7_Witness ==
  \E r \in Slots :
    /\ req[r].op = "signup" /\ req[r].pc = "done" /\ req[r].status = 201
    /\ req[r].user \in Pks(users) /\ users[req[r].user].email_verified_at = NullDate
    /\ \E o \in Pks(otps) : otps[o].user_id = req[r].user /\ otps[o].status = "AVAILABLE"

\* C8: no step of a signup whose email was registered when it arrived changes users,
\* role assignments, OTPs or the outbox, nor buffers a row; it answers 409.
C8_DuplicateSignupConflict ==
  [][\A r \in Slots :
       (req'[r] # req[r] /\ req'[r].op = "signup" /\ req'[r].dup) =>
         /\ users' = users /\ users_roles' = users_roles /\ otps' = otps /\ outbox' = outbox
         /\ req'[r].tx.users = <<>> /\ req'[r].tx.users_roles = {} /\ req'[r].tx.otps = <<>>
         /\ req'[r].pc = "done" =>
              (req'[r].status = 409 /\ req'[r].thrown = "This email already exists")]_vars

C8_Witness ==
  \E r \in Slots :
    /\ req[r].op = "signup" /\ req[r].dup /\ req[r].pc = "done" /\ req[r].status = 409
    /\ req[r].tx.state = "rollback"

StepFailed(q) ==
  \/ q.error \in {"getRoleId failed", "asignUserRole failed", "createOTP failed",
                  "sendEmailOTP failed", "commit failed"}
  \/ q.mail = "smtp_error"

\* C9: when a step of signup after the user insert has failed, no user, role assignment
\* or OTP written by that signup is visible afterwards and the error thrown to the
\* caller is the original one.
C9_SignupAtomic ==
  \A r \in Slots :
    (req[r].op = "signup" /\ req[r].pc = "done" /\ StepFailed(req[r])) =>
      /\ req[r].user \notin Pks(users)
      /\ getUserRoles(req[r].user) = {}
      /\ \A o \in Pks(otps) : otps[o].user_id # req[r].user
      /\ req[r].error # "" /\ req[r].thrown = req[r].error

\* C10: no two user rows hold the same email.
C10_UniqueEmail ==
  \A u1, u2 \in Pks(users) : users[u1].email = users[u2].email => u1 = u2

Unverified(email) == \E u \in UsersByEmail(email) : users[u].email_verified_at = NullDate

\* C11: a login for a registered user whose email_verified_at is unset answers 400,
\* whatever the password, and creates no session.
C11_UnverifiedLogin400 ==
  \A r \in Slots :
    (req[r].op = "login" /\ Unverified(req[r].email)) =>
      (req[r].pc = "done" /\ req[r].status = 400 /\ req[r].sess = 0)

\* C12: a login that passed its checks (correct password, verified email) answers 200
\* and inserts exactly one session, ACTIVE, with the caller's user-agent and IP; the
\* token's uid and sid are the user's uuid and the new session's uuid; the cookie starts
\* with Authorization=<token> and its Max-Age is the token's lifetime; the middleware's
\* checks pass for that token with the same user-agent, and a request that presented an
\* issued, unexpired token of a session still ACTIVE with its user-agent is Authorized.
C12_LoginIssuesSessionToken ==
  [][\A r \in Slots :
       /\ (Free(r) /\ req'[r] # req[r] /\ req'[r].op = "login"
             /\ \E u \in UsersByEmail(req'[r].email) :
                   /\ compare(req'[r].password, users[u].password)
                   /\ users[u].email_verified_at # NullDate) => req'[r].pc = "li_session"
       /\ (req[r].pc = "li_session" /\ req'[r] # req[r]) =>
            LET q == req[r]
                a == req'[r]
            IN /\ a.pc = "done" /\ a.status = 200
               /\ Pks(sessions') \ Pks(sessions) = {a.sess}
               /\ sessions'[a.sess].status = "ACTIVE"
               /\ sessions'[a.sess].user_id = q.user
               /\ sessions'[a.sess].useragent = q.ua
               /\ sessions'[a.sess].ip_address = q.ip
               /\ a.token.uid = users[q.user].uuid
               /\ a.token.sid = sessions'[a.sess].uuid
               /\ Head(a.cookie) = [name |-> "Authorization", value |-> a.token]
               /\ \E i \in DOMAIN a.cookie :
                     a.cookie[i] = [name |-> "Max-Age", value |-> a.token.exp - now]
               /\ a.token.kind = "jwt" /\ now' < a.token.exp
               /\ {s \in Pks(sessions') : sessions'[s].uuid = a.token.sid
                                            /\ sessions'[s].status = "ACTIVE"} = {a.sess}
               /\ users'[sessions'[a.sess].user_id].uuid = a.token.uid
       /\ (req'[r].op \in {"protected", "logout"} /\ req'[r].pc = "done"
             /\ req'[r].token \in tokens' /\ now' < req'[r].token.exp
             /\ \E s \in Pks(sessions') : /\ sessions'[s].uuid = req'[r].token.sid
                                           /\ sessions'[s].status = "ACTIVE"
                                           /\ sessions'[s].useragent = req'[r].ua)
            => req'[r].mw = "Authorized"]_vars

C12_Witness ==
  \E r1, r2 \in Slots :
    /\ req[r1].op = "login" /\ req[r1].pc = "done" /\ req[r1].status = 200
    /\ req[r2].op = "protected" /\ req[r2].pc = "done" /\ req[r2].mw = "Authorized"
    /\ req[r2].token = req[r1].token /\ req[r2].ua = sessions[req[r1].sess].useragent

\* C13: login answers NotFound (404) when the email is unknown and Conflict (409) when
\* the password does not match the stored hash; neither creates a session or a token.
C13_LoginErrors ==
  \A r \in Slots :
    (req[r].op = "login" /\ req[r].pc = "done") =>
      /\ UsersByEmail(req[r].email) = {} =>
           (req[r].status = 404 /\ req[r].sess = 0 /\ req[r].token = NoToken)
      /\ (\E u \in UsersByEmail(req[r].email) : ~compare(req[r].password, users[u].password)) =>
           (req[r].status = 409 /\ req[r].sess = 0 /\ req[r].token = NoToken)

\* C14: no step of a login changes an existing session; a login that passed its checks
\* always succeeds, whatever sessions the user already has, and adds an ACTIVE session
\* with a uuid of its own and a token not issued before.
C14_LoginOnlyAddsSession ==
  [][\A r \in Slots :
       (req'[r] # req[r] /\ req'[r].op = "login") =>
         /\ \A s \in Pks(sessions) : s \in Pks(sessions') /\ sessions'[s] = sessions[s]
         /\ req[r].pc = "li_session" =>
              /\ req'[r].status = 200
              /\ req'[r].sess \in Pks(sessions') \ Pks(sessions)
              /\ sessions'[req'[r].sess].status = "ACTIVE"
              /\ \A s \in Pks(sessions) : sessions[s].uuid # sessions'[req'[r].sess].uuid
              /\ req'[r].token \notin tokens /\ req'[r].token \in tokens'
              /\ now' < req'[r].token.exp]_vars

C14_Witness ==
  \E r1, r2 \in Slots :
    /\ r1 # r2
    /\ \A r \in {r1, r2} : /\ req[r].op = "login" /\ req[r].pc = "done" /\ req[r].status = 200
                            /\ sessions[req[r].sess].status = "ACTIVE"
                            /\ req[r].token \in tokens /\ verify(req[r].token)
    /\ req[r1].user = req[r2].user /\ req[r1].sess # req[r2].sess
    /\ req[r1].token # req[r2].token

\* C15: for an existing user, a logout that finds the session ACTIVE sets it to LOGOUT
\* and answers 200, and a logout that does not find it ACTIVE answers 200 as well and
\* changes no record.
C15_LogoutIdempotent ==
  [][\A r \in Slots :
       (req[r].op = "logout" /\ req[r].pc \in {"lo_user", "lo_save"} /\ req'[r] # req[r]) =>
         /\ users' = users /\ users_roles' = users_roles /\ otps' = otps
         /\ (req[r].pc = "lo_user" /\ req[r].user \in Pks(users)
               /\ ActiveSessions(req[r].session_id) = {}) =>
              (req'[r].pc = "done" /\ req'[r].status = 200 /\ sessions' = sessions)
         /\ (req[r].pc = "lo_user" /\ req[r].user \in Pks(users)
               /\ ActiveSessions(req[r].session_id) # {}) =>
              (req'[r].pc = "lo_save" /\ sessions' = sessions)
         /\ req[r].pc = "lo_save" =>
              /\ req'[r].pc = "done" /\ req'[r].status = 200
              /\ sessions[req[r].userSession].uuid = req[r].session_id
              /\ sessions' = [sessions EXCEPT ![req[r].userSession].status = "LOGOUT"]]_vars

C15_Witness ==
  \E r1, r2 \in Slots :
    /\ \A r \in {r1, r2} : req[r].op = "logout" /\ req[r].pc = "done" /\ req[r].status = 200
    /\ req[r1].token = req[r2].token
    /\ req[r1].userSession # 0 /\ req[r2].userSession = 0
    /\ sessions[req[r1].userSession].status = "LOGOUT"

\* C16: a logout whose user is no longer in the store answers 409 and leaves every
\* session, the named one included, as it was.
C16_LogoutStaleUser ==
  [][\A r \in Slots :
       (req[r].op = "logout" /\ req[r].pc = "lo_user" /\ req'[r] # req[r]
         /\ req[r].user \notin Pks(users)) =>
         /\ req'[r].pc = "done" /\ req'[r].status = 409
         /\ req'[r].thrown = "User doesn't exist"
         /\ sessions' = sessions]_vars

C16_Witness ==
  \E r \in Slots :
    /\ req[r].op = "logout" /\ req[r].pc = "done" /\ req[r].status = 409
    /\ Deleted(users[req[r].user])
    /\ sessions[req[r].sess].uuid = req[r].token.sid /\ sessions[req[r].sess].status = "ACTIVE"

Matching(user_id, key) ==
  {o \in Pks(otps) : otps[o].user_id = user_id /\ otps[o].key = key /\ otps[o].status = "AVAILABLE"}

C18_FabricatedCodeRejected ==
  [][\A r \in Slots :
       (Free(r) /\ req'[r] # req[r] /\ req'[r].op = "verify" /\ req'[r].user # 0
         /\ Matching(req'[r].user, req'[r].key) = {}) =>
         /\ req'[r].pc = "done" /\ req'[r].status = 400
         /\ otps' = otps /\ users' = users]_vars

C18_Witness ==
  \E r \in Slots :
    /\ req[r].op = "verify" /\ req[r].pc = "done" /\ req[r].status = 400
    /\ req[r].otpStatus = "" /\ req[r].user # 0
    /\ users[req[r].user].email_verified_at = NullDate
    /\ \E o \in Pks(otps) : /\ otps[o].user_id = req[r].user /\ otps[o].status = "AVAILABLE"
                             /\ otps[o].key # req[r].key

\* C19: resendVerifyEmail answers 400 when no user has the uuid or the user is verified,
\* and then buffers and writes no OTP and sends no mail; otherwise it buffers exactly one
\* OTP of that user, AVAILABLE and valid for 10 minutes, which its commit adds to the
\* store; no step of it changes an OTP that was there before.
C19_ResendCreatesOneOtp ==
  [][\A r \in Slots :
       (req'[r] # req[r] /\ req'[r].op = "resend") =>
         /\ \A o \in Pks(otps) : o \in Pks(otps') /\ otps'[o] = otps[o]
         /\ Free(r) =>
              /\ otps' = otps /\ outbox' = outbox
              /\ (req'[r].user = 0 \/ users[req'[r].user].email_verified_at # NullDate) =>
                   (req'[r].pc = "done" /\ req'[r].status = 400 /\ req'[r].otp = 0)
              /\ req'[r].pc = "done" =>
                   (req'[r].user = 0 \/ users[req'[r].user].email_verified_at # NullDate)
              /\ req'[r].pc = "tx_mail" =>
                   LET row == req'[r].tx.otps[req'[r].otp]
                   IN /\ DOMAIN req'[r].tx.otps = {req'[r].otp}
                      /\ row.user_id = req'[r].user /\ row.status = "AVAILABLE"
                      /\ row.type = "EMAIL_VERIFICATION" /\ row.expired_at = now + 10 * 60
         /\ (req[r].pc = "tx_commit" /\ req'[r].status = 200) =>
              /\ Pks(otps') \ Pks(otps) = {req[r].otp}
              /\ otps'[req[r].otp] = req[r].tx.otps[req[r].otp]
         /\ (req[r].pc # "tx_commit" \/ req'[r].status # 200) => otps' = otps]_vars

C19_Witness ==
  \E r \in Slots :
    /\ req[r].op = "resend" /\ req[r].pc = "done" /\ req[r].status = 200
    /\ otps[req[r].otp].status = "AVAILABLE" /\ otps[req[r].otp].user_id = req[r].user
    /\ \E o \in Pks(otps) : /\ o # req[r].otp /\ otps[o].user_id = req[r].user
                             /\ otps[o].status = "AVAILABLE"

\* C20: when createOTP or the dispatch of the mail has failed in resendVerifyEmail, the
\* OTP of that call is not in the store afterwards and the error thrown to the caller is
\* the original one.
C20_ResendAtomic ==
  \A r \in Slots :
    (req[r].op = "resend" /\ req[r].pc = "done"
      /\ (req[r].error \in {"createOTP failed", "sendEmailOTP failed"} \/ req[r].mail = "smtp_error")) =>
      /\ req[r].otp \notin Pks(otps)
      /\ req[r].error # "" /\ req[r].thrown = req[r].error

\* C21: a request that carries a token in the cookie Authorization is authenticated
\* with that token whatever its Authorization header holds: the session attached to an
\* Authorized request is the one the cookie's token names, and a request whose cookie
\* token is not valid ends Rejected even when the header holds a valid Bearer token.
C21_CookieBeforeHeader ==
  \A r \in Slots :
    (req[r].op = "users" /\ req[r].cookies.Authorization # NoToken) =>
      /\ req[r].token = req[r].cookies.Authorization
      /\ req[r].mw = "Authorized" => req[r].session_id = req[r].cookies.Authorization.sid
      /\ (req[r].pc = "done" /\ req[r].cookies.Authorization.kind # "jwt") => req[r].mw = "Rejected"

C21_Witness ==
  \E r1, r2 \in Slots :
    /\ req[r1].pc = "done" /\ req[r1].mw = "Authorized"
    /\ req[r1].header.scheme = "Bearer" /\ req[r1].header.credentials # req[r1].cookies.Authorization
    /\ req[r1].session_id = req[r1].cookies.Authorization.sid
    /\ req[r2].pc = "done" /\ req[r2].mw = "Rejected" /\ req[r2].cookies.Authorization = GarbageToken
    /\ req[r2].header.scheme = "Bearer" /\ ActiveSessions(req[r2].header.credentials.sid) # {}

\* C22: a request entering AuthMiddleware gets one outcome and keeps it. A token that
\* is absent, not the server's or expired ends the request Rejected with 401 at once;
\* a session that was not found ACTIVE, an owner whose uuid is not the token's uid or a
\* user-agent other than the session's ends it Rejected with 401; otherwise it is
\* Authorized with the session's owner, the token's sid and the owner's role names
\* attached. A Rejected request has nothing attached.
C22_OneTerminalOutcome ==
  [][\A r \in Slots :
       LET q == req[r]
           q1 == req'[r]
           Nothing(x) == x.user = 0 /\ x.session_id = NoUuid /\ x.roles = {}
           Refused(x) == x.pc = "done" /\ x.mw = "Rejected" /\ x.status = 401 /\ Nothing(x)
       IN /\ (Free(r) /\ q1 # q /\ q1.op \in {"protected", "logout"}) =>
               IF q1.token.kind # "jwt" \/ q1.token.exp <= now
                 THEN Refused(q1)
               ELSE q1.pc = "mw_roles" /\ q1.mw = "" /\ Nothing(q1)
          /\ (q.pc = "mw_roles" /\ q1 # q) =>
               IF \/ q.sess = 0 \/ q.sessStatus # "ACTIVE" \/ q.sessUser = 0
                  \/ users[q.sessUser].uuid # q.token.uid
                  \/ sessions[q.sess].useragent # q.ua
                 THEN Refused(q1)
               ELSE /\ q1.mw = "Authorized" /\ q1.error = ""
                    /\ q1.user = sessions[q.sess].user_id
                    /\ q1.session_id = q.token.sid
                    /\ q1.roles = {Roles[ur.role_id].name :
                                     ur \in {x \in users_roles : x.user_id = q1.user}}
          /\ (q.mw # "" /\ ~Free(r)) => q1.mw = q.mw
          /\ q1.mw \in {"", "Authorized", "Rejected"}]_vars

C22_Witness ==
  \E r1, r2 \in Slots :
    /\ req[r1].op = "protected" /\ req[r1].pc = "done" /\ req[r1].mw = "Authorized"
    /\ req[r1].status = 200 /\ req[r1].roles = {"USER"} /\ req[r1].user = 1
    /\ req[r2].pc = "done" /\ req[r2].mw = "Rejected" /\ req[r2].token \in tokens
    /\ req[r2].thrown = "Invalid Token #70" /\ req[r2].token.exp <= now

\* C23: the role gate answers by intersection alone: a request passes AuthorizedRoles
\* exactly when one of the role names attached to it is in the required set, and is
\* refused with 403 otherwise; a user holding only USER is refused where ADMIN is required.
C23_RoleGate ==
  [][\A r \in Slots :
       (req[r].pc = "mw_gate" /\ req'[r] # req[r]) =>
         /\ req'[r].pc = "done" /\ req'[r].roles = req[r].roles
         /\ IF req[r].roles \cap req'[r].required # {}
              THEN req'[r].status = 200 /\ req'[r].thrown = ""
            ELSE req'[r].status = 403 /\ req'[r].thrown = "Unauthorized Access #37"
         /\ (req[r].roles = {"USER"} /\ req'[r].required = {"ADMIN"}) => req'[r].status = 403]_vars

C23_Witness ==
  \E r1, r2 \in Slots :
    /\ req[r1].op = "users" /\ req[r1].pc = "done" /\ req[r1].mw = "Authorized"
    /\ req[r1].roles = {"USER"} /\ req[r1].required = {"ADMIN"} /\ req[r1].status = 403
    /\ req[r2].op = "users" /\ req[r2].pc = "done" /\ req[r2].mw = "Authorized"
    /\ req[r2].roles = {"USER"} /\ req[r2].required = {"ADMIN", "USER"} /\ req[r2].status = 200

\* C24: an OTP is created with expired_at = the instant of its creation + 10 minutes
\* and becomes visible unchanged; a verifyEmail that finds an AVAILABLE OTP at an
\* instant not later than its expired_at, the expiry instant included, takes it as
\* valid and succeeds, and one that finds it later takes it as expired.
C24_ExpiryBoundary ==
  [][\A r \in Slots :
       /\ \A o \in DOMAIN req'[r].tx.otps \ DOMAIN req[r].tx.otps :
            req'[r].tx.otps[o].expired_at = now + 10 * 60
       /\ \A o \in DOMAIN otps' \ DOMAIN otps :
            \E s \in Slots : o \in DOMAIN req[s].tx.otps /\ otps'[o] = req[s].tx.otps[o]
       /\ \A o \in DOMAIN otps : otps'[o].expired_at = otps[o].expired_at
       /\ (Free(r) /\ req'[r] # req[r] /\ req'[r].op = "verify" /\ req'[r].pc = "ve_save") =>
            /\ now <= otps[req'[r].otp].expired_at => req'[r].otpStatus = "USED"
            /\ now > otps[req'[r].otp].expired_at => req'[r].otpStatus = "EXPIRED"
       /\ (req[r].pc = "ve_save" /\ req'[r] # req[r]) =>
            IF req[r].otpStatus = "USED" THEN req'[r].valid /\ req'[r].pc = "ve_user"
            ELSE req'[r].pc = "done" /\ req'[r].status = 400
       /\ (req[r].pc = "ve_user" /\ req'[r] # req[r]) =>
            /\ req'[r].pc = "done" /\ req'[r].status = 200
            /\ users'[req[r].user].email_verified_at # NullDate]_vars

C24_Witness ==
  \E r \in Slots, o \in Pks(otps) :
    /\ req[r].op = "verify" /\ req[r].pc = "done" /\ req[r].status = 200
    /\ otps[o].user_id = req[r].user /\ otps[o].key = req[r].key /\ otps[o].status = "USED"
    /\ req[r].at = otps[o].expired_at /\ req[r].at = 600
    /\ \A p \in Pks(otps) \ {o} : otps[p].user_id = req[r].user => otps[p].key # req[r].key
    /\ \E p \in Pks(otps) : otps[p].expired_at = 1200

\* C25: createArticle is atomic: once it has answered, the article row and its
\* category link rows are both visible if it succeeded, and neither is visible if it
\* failed after opening its transaction.
C25_CreateArticleAtomic ==
  \A r \in Slots :
    (req[r].op = "createArticle" /\ req[r].pc = "done" /\ req[r].article # 0) =>
      IF req[r].status = 201
        THEN /\ req[r].article \in DOMAIN articles
             /\ \E l \in articles_categories : l.article_id = req[r].article
      ELSE /\ req[r].article \notin DOMAIN articles
           /\ \A l \in articles_categories : l.article_id # req[r].article

\* C30: an article is modified or deleted only by its author: updateArticle and
\* deleteArticle called for an existing article by an authenticated user who is not
\* its author answer an error, and no step changes an article's row or its category
\* links on behalf of a request of another user than the author.
C30_OnlyAuthorModifies ==
  [][/\ \A r \in Slots :
          (/\ req[r].pc = "ar_service" /\ req[r].op \in {"updateArticle", "deleteArticle"}
           /\ req'[r] # req[r] /\ req'[r].article \in Pks(articles)
           /\ articles[req'[r].article].author_id # req[r].user) =>
             (req'[r].pc = "done" /\ req'[r].status = 400)
     /\ \A a \in Pks(articles) :
          (\/ articles'[a] # articles[a]
           \/ {l \in articles_categories' : l.article_id = a} #
                {l \in articles_categories : l.article_id = a}) =>
             \E r \in Slots : /\ req'[r] # req[r] /\ req[r].article = a
                               /\ req[r].user = articles[a].author_id]_vars

\* C26: of two verifyEmail calls that found the same AVAILABLE, unexpired OTP row, at
\* most one answers success.
C26_OneConcurrentSuccess ==
  \A r1, r2 \in Slots :
    (/\ r1 # r2 /\ req[r1].op = "verify" /\ req[r2].op = "verify"
     /\ req[r1].otp # 0 /\ req[r1].otp = req[r2].otp
     /\ req[r1].pc = "done" /\ req[r2].pc = "done") =>
       ~(req[r1].status = 200 /\ req[r2].status = 200)

\* C27: no signup or resendVerifyEmail call returns or throws while the transaction it
\* opened is still open: when the call has answered, its transaction has been
\* committed or rolled back.
C27_NoOpenTransactionLeft ==
  \A r \in Slots :
    (req[r].op \in {"signup", "resend"} /\ req[r].pc = "done") => req[r].tx.state # "open"

\* C28: a code verifies only its owner. verifyEmail(u, code) that finds no AVAILABLE
\* OTP of u with that code answers 400; the OTP a verifyEmail consumes is owned by the
\* user it names and carries the code it presents; and no step sets a user's
\* email_verified_at or changes an OTP's status except for such a request.
C28_OtpVerifiesOwnerOnly ==
  [][/\ \A r \in Slots :
          (Free(r) /\ req'[r] # req[r] /\ req'[r].op = "verify" /\ req'[r].user # 0) =>
            IF \E o \in Pks(otps) : /\ otps[o].user_id = req'[r].user /\ otps[o].key = req'[r].key
                                     /\ otps[o].status = "AVAILABLE"
              THEN /\ req'[r].pc = "ve_save"
                   /\ otps[req'[r].otp].user_id = req'[r].user
                   /\ otps[req'[r].otp].key = req'[r].key
                   /\ otps[req'[r].otp].status = "AVAILABLE"
            ELSE req'[r].pc = "done" /\ req'[r].status = 400
     /\ \A u \in Pks(users) :
          users'[u].email_verified_at # users[u].email_verified_at =>
            \E r \in Slots : /\ req[r].pc = "ve_user" /\ req'[r] # req[r] /\ req[r].user = u
                              /\ otps[req[r].otp].user_id = u /\ otps[req[r].otp].key = req[r].key
     /\ \A o \in Pks(otps) :
          otps'[o].status # otps[o].status =>
            \E r \in Slots : /\ req[r].pc = "ve_save" /\ req'[r] # req[r] /\ req[r].otp = o
                              /\ otps[o].user_id = req[r].user /\ otps[o].key = req[r].key]_vars

C28_Witness ==
  \E r1 \in Slots, o \in Pks(otps) :
    /\ req[r1].op = "verify" /\ req[r1].pc = "done" /\ req[r1].status = 400
    /\ req[r1].user = 1 /\ req[r1].key = otps[o].key /\ req[r1].at = 0
    /\ otps[o].user_id = 2 /\ otps[o].status = "AVAILABLE"
    /\ now <= otps[o].expired_at /\ users[1].email_verified_at = NullDate

\* C29: every session row, every token handed out and every login in progress belongs
\* to a user whose email_verified_at is set; a login for an unverified account answers
\* 400 and creates no session.
C29_SessionsOfVerifiedUsers ==
  /\ \A s \in Pks(sessions) : users[sessions[s].user_id].email_verified_at # NullDate
  /\ \A t \in tokens : \A u \in Pks(users) :
       users[u].uuid = t.uid => users[u].email_verified_at # NullDate
  /\ \A r \in Slots :
       /\ req[r].pc = "li_session" => users[req[r].user].email_verified_at # NullDate
       /\ (req[r].op = "login" /\ req[r].pc = "done" /\ req[r].status = 200) =>
            \A u \in Pks(users) : users[u].email = req[r].email => users[u].email_verified_at # NullDate

C29_Witness ==
  \E r1, r2 \in Slots :
    /\ req[r1].op = "login" /\ req[r1].pc = "done" /\ req[r1].thrown = "Email is not verified"
    /\ req[r1].status = 400
    /\ \E u \in Pks(users) : /\ users[u].email = req[r1].email
                              /\ users[u].email_verified_at = NullDate
                              /\ compare(req[r1].password, users[u].password)
    /\ req[r2].op = "login" /\ req[r2].pc = "done" /\ req[r2].status = 200
    /\ \E s \in Pks(sessions) : sessions[s].user_id = req[r2].user

====
